---- MODULE Spec2Model ----
(***************************************************************************)
(* Model of src/src/domain/transaction.ts: computeBalances and the async   *)
(* function returned by computeTxDetailsExtended.                          *)
(*                                                                         *)
(* A call of the returned function is a process (a caller) that suspends   *)
(* at its awaits.  Each output and input of the transaction, and each      *)
(* answer of the wallet repository, is an input of the loop iteration that *)
(* reads it, and so is whether the transaction has a further output or     *)
(* input.  The block-header repository is shared state; the chain source   *)
(* is a deterministic function of (network, height).  A rejection is       *)
(* modelled for fetchBlockHeader and setBlockHeader.                       *)
(***************************************************************************)
EXTENDS Integers, Sequences, FiniteSets, TLC

\* ---------------------------------------------------------------- bounds
MaxOuts == 2        \* outputs of a transaction
MaxIns == 1         \* inputs of a transaction
MaxAmount == 1      \* largest single amount
MaxHeight == 2      \* largest confirmation height of a record
ChainTip == 1       \* heights the chain source has a header for: 1..ChainTip
MaxUtxos == 4       \* length of computeBalances' input

\* ------------------------------------------------------------ value sets
Callers == {"c1", "c2"}
Networks == {"liquid", "testnet"}
NoNetwork == "none"
Assets == {"L", "T"}
Blinded == "blinded"
Amounts == 1..MaxAmount

\* networks[network].assetHash
assetHash(n) == IF n = "liquid" THEN "L" ELSE "T"

\* script chunks, as script.decompile returns them
FeeScript == <<>>
BurnScript == <<"OP_RETURN", "PUSH">>
PayScript == <<"OP_0", "PUSH">>
Scripts == {FeeScript, BurnScript, PayScript}
OP_RETURN == "OP_RETURN"

\* ElementsValue.fromBytes(value): isConfidential, number
Explicit(v) == [isConfidential |-> FALSE, number |-> v]
Confidential == [isConfidential |-> TRUE, number |-> 0]

\* transaction outputs: the fee output and explicit outputs carry an asset
\* hash, confidential outputs carry commitments
Outputs ==
    {[script |-> s, value |-> Explicit(v), asset |-> a] :
        s \in Scripts, v \in Amounts, a \in Assets}
    \cup {[script |-> s, value |-> Confidential, asset |-> Blinded] :
        s \in {BurnScript, PayScript}}
NoOutput == [script |-> <<>>, value |-> Explicit(0), asset |-> "-"]

\* what walletRepository.getWitnessUtxo answers: undefined or an output
WitnessUtxos == {NoOutput} \cup {o \in Outputs : o.script = PayScript}

\* what walletRepository.getOutputBlindingData answers: undefined, an entry
\* without blindingData, or an entry with blindingData {asset, value}
NotAsked == [kind |-> "notasked", asset |-> "-", value |-> 0]
Absent == [kind |-> "absent", asset |-> "-", value |-> 0]
NoBlindingData == [kind |-> "noblind", asset |-> "-", value |-> 0]
BlindingData(a, v) == [kind |-> "data", asset |-> a, value |-> v]
Answers == {Absent, NoBlindingData} \cup {BlindingData(a, v) : a \in Assets, v \in Amounts}

\* TxDetails: hex present or not, height undefined, -1, or a block height
Details ==
    {[hex |-> x, hasHeight |-> FALSE, height |-> 0] : x \in BOOLEAN}
    \cup {[hex |-> x, hasHeight |-> TRUE, height |-> h] :
            x \in BOOLEAN, h \in {-1} \cup (1..MaxHeight)}
NoDetails == [hex |-> FALSE, hasHeight |-> FALSE, height |-> 0]

\* block headers
NoHeader == [height |-> 0, chain |-> "-"]
Header(n, h) == [height |-> h, chain |-> n]
Keys == Networks \X (1..MaxHeight)

VARIABLES
    pc,            \* where each call is suspended
    details,       \* the record each call was given
    outIndex,      \* outputs read so far by the output loop
    inIndex,       \* inputs read so far by the input loop
    output,        \* the loop body's `output`
    data,          \* the loop body's `data`
    feeAmount,
    txFlow,        \* a function on the assets that are keys of the record
    network,
    blockHeader,
    chainSource,   \* "unset", "null" (none available), "open", "closed"
    error,         \* the message of the error the call threw
    blockHeaders,  \* the block-header repository: Keys -> header or NoHeader
    ledger,        \* history: what the loops counted, per asset
    fetched,       \* history: the call invoked fetchBlockHeader
    doneBefore,    \* history: the calls that had returned when this one began
    utxos,         \* computeBalances' argument
    balances,      \* computeBalances' result
    aggregated     \* computeBalances has run

callVars == <<pc, details, outIndex, inIndex, output, data, feeAmount, txFlow,
              network, blockHeader, chainSource, error, blockHeaders, ledger,
              fetched, doneBefore>>
balVars == <<utxos, balances, aggregated>>
vars == <<callVars, balVars>>

\* ------------------------------------------------------ record helpers
EmptyFlow == [a \in {} |-> 0]

\* txFlow[asset] = (txFlow[asset] || 0) + v
AddFlow(flow, a, v) ==
    [x \in DOMAIN flow \cup {a} |->
        IF x = a THEN (IF a \in DOMAIN flow THEN flow[a] ELSE 0) + v ELSE flow[x]]

\* delete txFlow[asset]
DeleteKey(flow, a) == [x \in DOMAIN flow \ {a} |-> flow[x]]

\* script.decompile(output.script)?.includes(script.OPS.OP_RETURN)
IsBurn(o) == \E i \in DOMAIN o.script : o.script[i] = OP_RETURN

\* ------------------------------------------------- the loops' bodies
\* the output loop asks the wallet repository only for a confidential output
\* that is not the fee output; the input loop only for a confidential utxo
AsksBlindingData(o) == Len(o.script) # 0 /\ o.value.isConfidential
AsksInputBlindingData(w) == w # NoOutput /\ w.value.isConfidential

\* OutputBody with an entry that lacks blindingData read as if it had it
OutputBodyReadsMissingData(flow, fee, o, e) ==
    IF Len(o.script) = 0
    THEN [txFlow |-> flow, feeAmount |-> o.value.number]
    ELSE IF o.value.isConfidential
    THEN IF e.kind = "absent"
         THEN [txFlow |-> flow, feeAmount |-> fee]
         ELSE [txFlow |-> AddFlow(flow, e.asset, e.value), feeAmount |-> fee]
    ELSE IF IsBurn(o)
    THEN [txFlow |-> flow, feeAmount |-> fee]
    ELSE [txFlow |-> AddFlow(flow, o.asset, o.value.number), feeAmount |-> fee]

\* OutputBody without the burn test
OutputBodyCountsBurn(flow, fee, o, e) ==
    IF Len(o.script) = 0
    THEN [txFlow |-> flow, feeAmount |-> o.value.number]
    ELSE IF o.value.isConfidential
    THEN IF e.kind # "data"
         THEN [txFlow |-> flow, feeAmount |-> fee]
         ELSE [txFlow |-> AddFlow(flow, e.asset, e.value), feeAmount |-> fee]
    ELSE [txFlow |-> AddFlow(flow, o.asset, o.value.number), feeAmount |-> fee]

\* one iteration of the output loop on output o, the wallet repository
\* answering e when asked
OutputBody(flow, fee, o, e) ==
    IF Len(o.script) = 0
    THEN [txFlow |-> flow, feeAmount |-> o.value.number]
    ELSE IF o.value.isConfidential
    THEN IF e.kind # "data"
         THEN [txFlow |-> flow, feeAmount |-> fee]
         ELSE [txFlow |-> AddFlow(flow, e.asset, e.value), feeAmount |-> fee]
    ELSE IF IsBurn(o)
    THEN [txFlow |-> flow, feeAmount |-> fee]
    ELSE [txFlow |-> AddFlow(flow, o.asset, o.value.number), feeAmount |-> fee]

\* InputBody adding the spent amount instead of subtracting it
InputBodyAdds(flow, w, e) ==
    IF w = NoOutput
    THEN flow
    ELSE IF w.value.isConfidential
    THEN IF e.kind # "data"
         THEN flow
         ELSE AddFlow(flow, e.asset, e.value)
    ELSE AddFlow(flow, w.asset, w.value.number)

\* one iteration of the input loop: getWitnessUtxo answered w, and
\* getOutputBlindingData answered e when asked
InputBody(flow, w, e) ==
    IF w = NoOutput
    THEN flow
    ELSE IF w.value.isConfidential
    THEN IF e.kind # "data"
         THEN flow
         ELSE AddFlow(flow, e.asset, 0 - e.value)
    ELSE AddFlow(flow, w.asset, 0 - w.value.number)

\* if the flow for L-BTC is -feeAmount, remove it
SelfTransferCorrection(flow, fee, native) ==
    IF native \in DOMAIN flow /\ flow[native] + fee = 0
    THEN IF Cardinality(DOMAIN flow) = 1
         THEN [flow EXCEPT ![native] = 0]
         ELSE DeleteKey(flow, native)
    ELSE flow

\* ------------------------------------------------------ collaborators
\* blockHeadersRepository.getBlockHeader(network, height)
getBlockHeader(repo, n, h) == repo[<<n, h>>]
\* blockHeadersRepository.setBlockHeader(network, blockHeader)
setBlockHeader(repo, n, hdr) == [repo EXCEPT ![<<n, hdr.height>>] = hdr]
\* chainSource.fetchBlockHeader(height) of the chain source of network n:
\* the same height always yields the same header; none above the tip
fetchBlockHeader(n, h) == IF h <= ChainTip THEN Header(n, h) ELSE NoHeader

\* ---------------------------------------------------------- history
NoLedger == [credit |-> [a \in Assets |-> 0], debit |-> [a \in Assets |-> 0], seen |-> {}]
Unconfirmed(d) == ~d.hasHeight \/ d.height = -1

\* ---------------------------------------------------------------- Init
Init ==
    /\ pc = [c \in Callers |-> "idle"]
    /\ details = [c \in Callers |-> NoDetails]
    /\ outIndex = [c \in Callers |-> 0]
    /\ inIndex = [c \in Callers |-> 0]
    /\ output = [c \in Callers |-> NoOutput]
    /\ data = [c \in Callers |-> NotAsked]
    /\ feeAmount = [c \in Callers |-> 0]
    /\ txFlow = [c \in Callers |-> EmptyFlow]
    /\ network = [c \in Callers |-> NoNetwork]
    /\ blockHeader = [c \in Callers |-> NoHeader]
    /\ chainSource = [c \in Callers |-> "unset"]
    /\ error = [c \in Callers |-> ""]
    /\ blockHeaders = [k \in Keys |-> NoHeader]
    /\ ledger = [c \in Callers |-> NoLedger]
    /\ fetched = [c \in Callers |-> FALSE]
    /\ doneBefore = [c \in Callers |-> {}]
    /\ utxos = <<>>
    /\ balances = EmptyFlow
    /\ aggregated = FALSE

\* The reference accounting that the claims speak of.  A counted output is a
\* non-fee output that is confidential with stored blinding data, or explicit
\* and not a burn; a counted input is one whose previous output is found and
\* is explicit, or confidential with stored blinding data.
CountedOutput(o, e) ==
    /\ o.script # FeeScript
    /\ \/ o.value.isConfidential /\ e.kind = "data"
       \/ ~o.value.isConfidential /\ ~IsBurn(o)
CountedInput(w, e) ==
    /\ w # NoOutput
    /\ \/ ~w.value.isConfidential
       \/ w.value.isConfidential /\ e.kind = "data"
CountedAsset(o, e) == IF o.value.isConfidential THEN e.asset ELSE o.asset
CountedAmount(o, e) == IF o.value.isConfidential THEN e.value ELSE o.value.number
Credit(l, a, v) ==
    [l EXCEPT !.credit[a] = @ + v, !.seen = @ \cup {a}]
Debit(l, a, v) ==
    [l EXCEPT !.debit[a] = @ + v, !.seen = @ \cup {a}]
\* the reference fold: per asset seen, what came in minus what went out
ReferenceFlow(l) == [a \in l.seen |-> l.credit[a] - l.debit[a]]

\* ------------------------------------------------------------- actions
\* lines 108-114: the call begins with record d
Call(c, d) ==
    /\ pc[c] \in {"idle", "returned", "failed"}
    /\ details' = [details EXCEPT ![c] = d]
    /\ pc' = [pc EXCEPT ![c] = IF d.hex THEN "outs" ELSE "failed"]
    /\ error' = [error EXCEPT ![c] = IF d.hex THEN "" ELSE "tx hex not found"]
    /\ feeAmount' = [feeAmount EXCEPT ![c] = 0]
    /\ txFlow' = [txFlow EXCEPT ![c] = EmptyFlow]
    /\ outIndex' = [outIndex EXCEPT ![c] = 0]
    /\ inIndex' = [inIndex EXCEPT ![c] = 0]
    /\ output' = [output EXCEPT ![c] = NoOutput]
    /\ data' = [data EXCEPT ![c] = NotAsked]
    /\ network' = [network EXCEPT ![c] = NoNetwork]
    /\ blockHeader' = [blockHeader EXCEPT ![c] = NoHeader]
    /\ chainSource' = [chainSource EXCEPT ![c] = "unset"]
    /\ ledger' = [ledger EXCEPT ![c] = NoLedger]
    /\ fetched' = [fetched EXCEPT ![c] = FALSE]
    /\ doneBefore' = [x \in Callers |->
            IF x = c THEN {y \in Callers \ {c} : pc[y] = "returned"}
            ELSE doneBefore[x] \ {c}]
    /\ UNCHANGED <<blockHeaders, balVars>>

\* lines 117-138: one iteration of the output loop; the transaction has a
\* further output o, and the wallet repository answers e if it is asked
OutputStep(c, o, e) ==
    /\ pc[c] = "outs"
    /\ outIndex[c] < MaxOuts
    /\ e \in (IF AsksBlindingData(o) THEN Answers ELSE {NotAsked})
    /\ output' = [output EXCEPT ![c] = o]
    /\ data' = [data EXCEPT ![c] = e]
    /\ txFlow' = [txFlow EXCEPT ![c] = OutputBody(txFlow[c], feeAmount[c], o, e).txFlow]
    /\ feeAmount' = [feeAmount EXCEPT ![c] = OutputBody(txFlow[c], feeAmount[c], o, e).feeAmount]
    /\ outIndex' = [outIndex EXCEPT ![c] = @ + 1]
    /\ ledger' = [ledger EXCEPT ![c] =
            IF CountedOutput(o, e)
            THEN Credit(@, CountedAsset(o, e), CountedAmount(o, e))
            ELSE @]
    /\ UNCHANGED <<pc, details, inIndex, network, blockHeader, chainSource, error,
                   blockHeaders, fetched, doneBefore, balVars>>

\* lines 140-157: one iteration of the input loop, once the output loop is
\* over; getWitnessUtxo answers w, getOutputBlindingData answers e if asked
InputStep(c, w, e) ==
    /\ pc[c] \in {"outs", "ins"}
    /\ inIndex[c] < MaxIns
    /\ e \in (IF AsksInputBlindingData(w) THEN Answers ELSE {NotAsked})
    /\ pc' = [pc EXCEPT ![c] = "ins"]
    /\ output' = [output EXCEPT ![c] = w]
    /\ data' = [data EXCEPT ![c] = e]
    /\ txFlow' = [txFlow EXCEPT ![c] = InputBody(txFlow[c], w, e)]
    /\ inIndex' = [inIndex EXCEPT ![c] = @ + 1]
    /\ ledger' = [ledger EXCEPT ![c] =
            IF CountedInput(w, e)
            THEN Debit(@, CountedAsset(w, e), CountedAmount(w, e))
            ELSE @]
    /\ UNCHANGED <<details, outIndex, feeAmount, network, blockHeader, chainSource,
                   error, blockHeaders, fetched, doneBefore, balVars>>

\* lines 159-160: both loops are over; an unconfirmed record is returned as
\* it is.  The loops' variables go out of scope.
CheckHeight(c) ==
    /\ pc[c] \in {"outs", "ins"}
    /\ pc' = [pc EXCEPT ![c] = IF Unconfirmed(details[c]) THEN "returned" ELSE "network"]
    /\ outIndex' = [outIndex EXCEPT ![c] = 0]
    /\ inIndex' = [inIndex EXCEPT ![c] = 0]
    /\ output' = [output EXCEPT ![c] = NoOutput]
    /\ data' = [data EXCEPT ![c] = NotAsked]
    /\ UNCHANGED <<details, feeAmount, txFlow, network, blockHeader, chainSource,
                   error, blockHeaders, ledger, fetched, doneBefore, balVars>>

\* lines 161-162: appRepository.getNetwork() answers n
GetNetwork(c, n) ==
    /\ pc[c] = "network"
    /\ network' = [network EXCEPT ![c] = n]
    /\ pc' = [pc EXCEPT ![c] = IF n = NoNetwork THEN "failed" ELSE "header"]
    /\ error' = [error EXCEPT ![c] = IF n = NoNetwork THEN "network not found" ELSE ""]
    /\ UNCHANGED <<details, outIndex, inIndex, output, data, feeAmount, txFlow,
                   blockHeader, chainSource, blockHeaders, ledger, fetched,
                   doneBefore, balVars>>

\* GetBlockHeader with the cached header ignored
GetBlockHeaderAlwaysMiss(c) ==
    /\ pc[c] = "header"
    /\ blockHeader' = [blockHeader EXCEPT ![c] = NoHeader]
    /\ pc' = [pc EXCEPT ![c] = "source"]
    /\ UNCHANGED <<details, outIndex, inIndex, output, data, feeAmount, txFlow,
                   network, chainSource, error, blockHeaders, ledger, fetched,
                   doneBefore, balVars>>

\* lines 163-165: the cache lookup
GetBlockHeader(c) ==
    /\ pc[c] = "header"
    /\ blockHeader' = [blockHeader EXCEPT ![c] =
            getBlockHeader(blockHeaders, network[c], details[c].height)]
    /\ pc' = [pc EXCEPT ![c] =
            IF getBlockHeader(blockHeaders, network[c], details[c].height) = NoHeader
            THEN "source" ELSE "correct"]
    /\ UNCHANGED <<details, outIndex, inIndex, output, data, feeAmount, txFlow,
                   network, chainSource, error, blockHeaders, ledger, fetched,
                   doneBefore, balVars>>

\* lines 166-167: appRepository.getChainSource(network) answers a connection
\* or nothing; with none the call returns at once
GetChainSource(c, available) ==
    /\ pc[c] = "source"
    /\ chainSource' = [chainSource EXCEPT ![c] = IF available THEN "open" ELSE "null"]
    /\ pc' = [pc EXCEPT ![c] = IF available THEN "fetch" ELSE "returned"]
    /\ UNCHANGED <<details, outIndex, inIndex, output, data, feeAmount, txFlow,
                   network, blockHeader, error, blockHeaders, ledger, fetched,
                   doneBefore, balVars>>

\* line 168: chainSource.fetchBlockHeader(height) resolves (ok) or rejects
FetchBlockHeader(c, ok) ==
    /\ pc[c] = "fetch"
    /\ fetched' = [fetched EXCEPT ![c] = TRUE]
    /\ blockHeader' = [blockHeader EXCEPT ![c] =
            IF ok THEN fetchBlockHeader(network[c], details[c].height) ELSE @]
    /\ pc' = [pc EXCEPT ![c] = IF ok THEN "persist" ELSE "failed"]
    /\ error' = [error EXCEPT ![c] = IF ok THEN "" ELSE "fetch failed"]
    /\ UNCHANGED <<details, outIndex, inIndex, output, data, feeAmount, txFlow,
                   network, chainSource, blockHeaders, ledger, doneBefore, balVars>>

\* SetBlockHeader with the fetched header never written
SetBlockHeaderDropped(c, ok) ==
    /\ pc[c] = "persist"
    /\ blockHeader[c] = NoHeader => ok
    /\ pc' = [pc EXCEPT ![c] = IF ok THEN "close" ELSE "failed"]
    /\ error' = [error EXCEPT ![c] = IF ok THEN "" ELSE "store failed"]
    /\ UNCHANGED <<details, outIndex, inIndex, output, data, feeAmount, txFlow,
                   network, blockHeader, chainSource, ledger, fetched, doneBefore,
                   balVars, blockHeaders>>

\* line 169: a fetched header is persisted; setBlockHeader resolves (ok) or
\* rejects
SetBlockHeader(c, ok) ==
    /\ pc[c] = "persist"
    /\ blockHeader[c] = NoHeader => ok
    /\ blockHeaders' =
            IF blockHeader[c] # NoHeader /\ ok
            THEN setBlockHeader(blockHeaders, network[c], blockHeader[c])
            ELSE blockHeaders
    /\ pc' = [pc EXCEPT ![c] = IF ok THEN "close" ELSE "failed"]
    /\ error' = [error EXCEPT ![c] = IF ok THEN "" ELSE "store failed"]
    /\ UNCHANGED <<details, outIndex, inIndex, output, data, feeAmount, txFlow,
                   network, blockHeader, chainSource, ledger, fetched, doneBefore,
                   balVars>>

\* line 170: chainSource.close()
Close(c) ==
    /\ pc[c] = "close"
    /\ chainSource' = [chainSource EXCEPT ![c] = "closed"]
    /\ pc' = [pc EXCEPT ![c] = "correct"]
    /\ UNCHANGED <<details, outIndex, inIndex, output, data, feeAmount, txFlow,
                   network, blockHeader, error, blockHeaders, ledger, fetched,
                   doneBefore, balVars>>

\* lines 173-189: the self-transfer correction and the return
Return(c) ==
    /\ pc[c] = "correct"
    /\ txFlow' = [txFlow EXCEPT ![c] =
            SelfTransferCorrection(txFlow[c], feeAmount[c], assetHash(network[c]))]
    /\ pc' = [pc EXCEPT ![c] = "returned"]
    /\ UNCHANGED <<details, outIndex, inIndex, output, data, feeAmount, network,
                   blockHeader, chainSource, error, blockHeaders, ledger, fetched,
                   doneBefore, balVars>>

\* ------------------------------------------------------ specifications
\* one caller, calling again and again
Next ==
    \E c \in {"c1"} :
        \/ \E d \in Details : Call(c, d)
        \/ \E o \in Outputs, e \in Answers \cup {NotAsked} : OutputStep(c, o, e)
        \/ \E w \in WitnessUtxos, e \in Answers \cup {NotAsked} : InputStep(c, w, e)
        \/ CheckHeight(c)
        \/ \E n \in Networks \cup {NoNetwork} : GetNetwork(c, n)
        \/ GetBlockHeader(c)
        \/ \E available \in BOOLEAN : GetChainSource(c, available)
        \/ \E ok \in BOOLEAN : FetchBlockHeader(c, ok)
        \/ \E ok \in BOOLEAN : SetBlockHeader(c, ok)
        \/ Close(c)
        \/ Return(c)

Spec == Init /\ [][Next]_vars

\* two callers given the same transaction (a fee output of 1, one explicit
\* wallet utxo of 1 L spent) at a confirmed height, interleaved at their awaits
SameOuts == <<[script |-> FeeScript, value |-> Explicit(1), asset |-> "L"]>>
SameIns == <<[script |-> PayScript, value |-> Explicit(1), asset |-> "L"]>>
NextTwo ==
    \E c \in Callers :
        \/ \E h \in 1..MaxHeight :
              Call(c, [hex |-> TRUE, hasHeight |-> TRUE, height |-> h])
        \/ /\ outIndex[c] < Len(SameOuts)
           /\ OutputStep(c, SameOuts[outIndex[c] + 1], NotAsked)
        \/ /\ pc[c] = "outs" => outIndex[c] = Len(SameOuts)
           /\ inIndex[c] < Len(SameIns)
           /\ InputStep(c, SameIns[inIndex[c] + 1], NotAsked)
        \/ /\ inIndex[c] = Len(SameIns)
           /\ CheckHeight(c)
        \/ \E n \in Networks \cup {NoNetwork} : GetNetwork(c, n)
        \/ GetBlockHeader(c)
        \/ \E available \in BOOLEAN : GetChainSource(c, available)
        \/ \E ok \in BOOLEAN : FetchBlockHeader(c, ok)
        \/ \E ok \in BOOLEAN : SetBlockHeader(c, ok)
        \/ Close(c)
        \/ Return(c)

SpecTwo == Init /\ [][NextTwo]_vars

\* ------------------------------------------------------ computeBalances
\* UnblindedOutput: blindingData present or not, and its asset and value
Utxos ==
    {[blindingData |-> FALSE, asset |-> "-", value |-> 0]}
    \cup {[blindingData |-> TRUE, asset |-> a, value |-> v] : a \in Assets, v \in Amounts}
UtxoLists == UNION {[1..n -> Utxos] : n \in 0..MaxUtxos}

\* computeBalances keeping, per asset, the last value only
RECURSIVE LastWinsFrom(_, _, _)
LastWinsFrom(us, i, bal) ==
    IF i > Len(us) THEN bal
    ELSE LastWinsFrom(us, i + 1,
            IF ~us[i].blindingData THEN bal
            ELSE [x \in DOMAIN bal \cup {us[i].asset} |->
                    IF x = us[i].asset THEN us[i].value ELSE bal[x]])
computeBalancesLastWins(us) == LastWinsFrom(us, 1, EmptyFlow)

\* lines 49-57
RECURSIVE computeBalancesFrom(_, _, _)
computeBalancesFrom(us, i, bal) ==
    IF i > Len(us) THEN bal
    ELSE computeBalancesFrom(us, i + 1,
            IF ~us[i].blindingData THEN bal
            ELSE AddFlow(bal, us[i].asset, us[i].value))
computeBalances(us) == computeBalancesFrom(us, 1, EmptyFlow)

InitBal ==
    /\ pc = [c \in Callers |-> "idle"]
    /\ details = [c \in Callers |-> NoDetails]
    /\ outIndex = [c \in Callers |-> 0]
    /\ inIndex = [c \in Callers |-> 0]
    /\ output = [c \in Callers |-> NoOutput]
    /\ data = [c \in Callers |-> NotAsked]
    /\ feeAmount = [c \in Callers |-> 0]
    /\ txFlow = [c \in Callers |-> EmptyFlow]
    /\ network = [c \in Callers |-> NoNetwork]
    /\ blockHeader = [c \in Callers |-> NoHeader]
    /\ chainSource = [c \in Callers |-> "unset"]
    /\ error = [c \in Callers |-> ""]
    /\ blockHeaders = [k \in Keys |-> NoHeader]
    /\ ledger = [c \in Callers |-> NoLedger]
    /\ fetched = [c \in Callers |-> FALSE]
    /\ doneBefore = [c \in Callers |-> {}]
    /\ utxos \in UtxoLists
    /\ balances = EmptyFlow
    /\ aggregated = FALSE

\* a call of computeBalances on utxos
Aggregate ==
    /\ ~aggregated
    /\ balances' = computeBalances(utxos)
    /\ aggregated' = TRUE
    /\ UNCHANGED <<callVars, utxos>>

NextBal == Aggregate

SpecBal == InitBal /\ [][NextBal]_vars

\* ---------------------------------------------------------------- claims
Done(c) == pc[c] \in {"returned", "failed"}
Confirmed(c) == details[c].hex /\ ~Unconfirmed(details[c])
OutputStepTaken(c) == outIndex'[c] = outIndex[c] + 1
InputStepTaken(c) == inIndex'[c] = inIndex[c] + 1

\* C1: no call ends, by return or by error, with the chain-source connection
\* it acquired on a cache miss still open.
C1_ConnectionReleased ==
    \A c \in Callers : Done(c) => chainSource[c] # "open"

\* C2: whenever a call on a record of known height returns, the self-transfer
\* correction has been applied to what the loops accumulated: if the native
\* entry plus feeAmount is 0, the returned flow is {native: 0} when native was
\* the only key, and otherwise lacks the native key and keeps every other entry.
C2_CorrectionOnEveryReturn ==
    \A c \in Callers :
        (pc[c] = "returned" /\ Confirmed(c)) =>
            LET acc == ReferenceFlow(ledger[c])
                native == assetHash(network[c])
            IN  (native \in DOMAIN acc /\ acc[native] + feeAmount[c] = 0) =>
                    IF DOMAIN acc = {native}
                    THEN txFlow[c] = [a \in {native} |-> 0]
                    ELSE txFlow[c] = [a \in DOMAIN acc \ {native} |-> acc[a]]

\* C3: a record whose transaction moves a positive amount of a non-native
\* asset A into the wallet, with a native net of exactly -feeAmount, returns
\* the flow {A: amount}, without a native key.  (Stated for the calls that
\* read the active network, so that the native asset is known.)
C3_FeeOnlyNativeRemoved ==
    \A c \in Callers :
        (pc[c] = "returned" /\ Confirmed(c)) =>
            LET acc == ReferenceFlow(ledger[c])
                native == assetHash(network[c])
            IN  \A A \in Assets \ {native} :
                    (/\ DOMAIN acc = {A, native}
                     /\ acc[A] > 0
                     /\ acc[native] = 0 - feeAmount[c])
                    => txFlow[c] = [a \in {A} |-> acc[A]]

\* C4: with a known height the call fails with "network not found" whenever
\* the active network or the chain source of that network is unavailable, and
\* never returns a result then; with the height absent or -1 it never fails
\* with that error.
C4_NetworkNotConfigured ==
    \A c \in Callers :
        /\ (Done(c) /\ Confirmed(c) /\ (network[c] = NoNetwork \/ chainSource[c] = "null"))
                => (pc[c] = "failed" /\ error[c] = "network not found")
        /\ (Done(c) /\ Unconfirmed(details[c])) => error[c] # "network not found"

\* the iteration just taken skipped its output, or its input
SkippedOutput(c) ==
    /\ OutputStepTaken(c)
    /\ AsksBlindingData(output'[c])
    /\ data'[c].kind \in {"absent", "noblind"}
SkippedInput(c) ==
    /\ InputStepTaken(c)
    /\ \/ output'[c] = NoOutput
       \/ output'[c].value.isConfidential /\ data'[c].kind \in {"absent", "noblind"}

\* C5: a confidential output without blinding data, a confidential spent
\* output without blinding data and an input whose previous output is not
\* found each leave txFlow as it was and do not fail the call; a call on an
\* unconfirmed record with hex present never fails and never goes past the
\* return of line 160.
C5_SoftSkips ==
    [][\A c \in Callers :
        /\ (SkippedOutput(c) \/ SkippedInput(c)) =>
                (txFlow'[c] = txFlow[c] /\ pc'[c] \in {"outs", "ins"})
        /\ (details'[c].hex /\ Unconfirmed(details'[c])) =>
                pc'[c] \in {"outs", "ins", "returned"}]_vars
C5_Witness ==
    \E c \in Callers :
        /\ pc[c] = "ins" /\ Unconfirmed(details[c])
        /\ output[c].value.isConfidential /\ data[c].kind = "noblind"
        /\ txFlow[c] = EmptyFlow /\ outIndex[c] = MaxOuts

\* C6 as claimed: a burn output never changes txFlow, whatever its value,
\* explicit or confidential with stored blinding data.
C6_BurnNeverCounted ==
    [][\A c \in Callers :
        (OutputStepTaken(c) /\ IsBurn(output'[c])) => txFlow'[c] = txFlow[c]]_vars

\* C6 as amended: an explicit burn output, and a confidential burn output
\* without stored blinding data, never change txFlow; a confidential burn
\* output with stored blinding data adds its value to txFlow[asset] like any
\* other confidential output.
C6_ExplicitBurnNeverCounted ==
    [][\A c \in Callers :
        (OutputStepTaken(c) /\ IsBurn(output'[c])) =>
            IF output'[c].value.isConfidential /\ data'[c].kind = "data"
            THEN /\ DOMAIN txFlow'[c] = DOMAIN txFlow[c] \cup {data'[c].asset}
                 /\ \A a \in DOMAIN txFlow'[c] :
                      txFlow'[c][a] =
                          (IF a \in DOMAIN txFlow[c] THEN txFlow[c][a] ELSE 0)
                          + (IF a = data'[c].asset THEN data'[c].value ELSE 0)
            ELSE txFlow'[c] = txFlow[c]]_vars
C6_Witness ==
    \E c \in Callers :
        /\ pc[c] = "outs" /\ outIndex[c] = 2
        /\ IsBurn(output[c]) /\ ~output[c].value.isConfidential
        /\ output[c].value.number = MaxAmount
        /\ txFlow[c] # EmptyFlow

\* the call is past its cache lookup; two calls have the same network and
\* height; the call fetched a header, persisted it and returned
PastLookup(c) == pc[c] \in {"source", "fetch", "persist", "close", "correct", "returned", "failed"}
SameKey(c1, c2) ==
    /\ network[c1] \in Networks /\ network[c1] = network[c2]
    /\ Confirmed(c1) /\ Confirmed(c2)
    /\ details[c1].height = details[c2].height
FetchedAndPersisted(c) ==
    pc[c] = "returned" /\ fetched[c] /\ blockHeader[c] # NoHeader

\* C7: when a call that fetched a header and persisted it had returned before
\* a second call for the same network and height began, the second call finds
\* the header in the repository, acquires no chain source and issues no fetch
\* (one fetchBlockHeader across the two), and has the same header.
C7_SequentialCallsFetchOnce ==
    \A c1 \in Callers : \A c2 \in Callers \ {c1} :
        (/\ c1 \in doneBefore[c2]
         /\ FetchedAndPersisted(c1)
         /\ SameKey(c1, c2)
         /\ PastLookup(c2))
        => /\ pc[c2] \in {"correct", "returned"}
           /\ chainSource[c2] = "unset"
           /\ ~fetched[c2]
           /\ blockHeader[c2] = blockHeader[c1]
C7_Witness ==
    \E c1 \in Callers : \E c2 \in Callers \ {c1} :
        /\ c1 \in doneBefore[c2]
        /\ FetchedAndPersisted(c1)
        /\ SameKey(c1, c2)
        /\ pc[c2] = "returned"

\* C8: two calls for the same network and height that interleave at their
\* awaits, each served by the repository or by a chain source, return the
\* same header, and the repository holds that header for the key.
C8_ConcurrentCallsAgree ==
    \A c1 \in Callers : \A c2 \in Callers \ {c1} :
        (/\ pc[c1] = "returned" /\ pc[c2] = "returned"
         /\ SameKey(c1, c2)
         /\ chainSource[c1] # "null" /\ chainSource[c2] # "null")
        => /\ blockHeader[c1] = blockHeader[c2]
           /\ blockHeader[c1] # NoHeader =>
                getBlockHeader(blockHeaders, network[c1], details[c1].height) = blockHeader[c1]
C8_Witness ==
    \E c1 \in Callers : \E c2 \in Callers \ {c1} :
        /\ pc[c1] = "returned" /\ pc[c2] = "returned"
        /\ SameKey(c1, c2)
        /\ fetched[c1] /\ fetched[c2]
        /\ blockHeader[c1] # NoHeader
        /\ c1 \notin doneBefore[c2] /\ c2 \notin doneBefore[c1]

\* the sum of the values at the indices S; the indices holding asset a; the
\* list reordered by the permutation p
RECURSIVE SumValues(_, _)
SumValues(us, S) ==
    IF S = {} THEN 0
    ELSE LET i == CHOOSE x \in S : TRUE
         IN  us[i].value + SumValues(us, S \ {i})
Holding(us, a) == {i \in DOMAIN us : us[i].blindingData /\ us[i].asset = a}
Reordered(us, p) == [i \in DOMAIN us |-> us[p[i]]]

\* C9: computeBalances gives, per asset, the sum of blindingData.value over
\* the utxos that have blindingData with that asset, nothing for the others,
\* the empty mapping for no utxos, and the same for every reordering.
C9_BalancesAreSums ==
    aggregated =>
        /\ DOMAIN balances = {a \in Assets : Holding(utxos, a) # {}}
        /\ \A a \in DOMAIN balances : balances[a] = SumValues(utxos, Holding(utxos, a))
        /\ utxos = <<>> => balances = EmptyFlow
        /\ \A p \in Permutations(DOMAIN utxos) :
              computeBalances(Reordered(utxos, p)) = balances
C9_Witness ==
    /\ aggregated
    /\ Len(utxos) = 3
    /\ ~utxos[1].blindingData
    /\ utxos[2].blindingData /\ utxos[3].blindingData
    /\ utxos[2].asset = utxos[3].asset
    /\ balances = [a \in {utxos[2].asset} |-> utxos[2].value + utxos[3].value]

\* C10: for a record with hex present and height absent or -1, the returned
\* txFlow is the reference fold (per asset, counted outputs minus counted
\* inputs; a key for exactly the assets counted at least once, a net of zero
\* staying as a 0 entry), and the result carries no block header.
C10_UnconfirmedFlowIsReferenceFold ==
    \A c \in Callers :
        (pc[c] = "returned" /\ details[c].hex /\ Unconfirmed(details[c])) =>
            /\ txFlow[c] = ReferenceFlow(ledger[c])
            /\ blockHeader[c] = NoHeader
C10_Witness ==
    \E c \in Callers :
        /\ pc[c] = "returned" /\ details[c].hex /\ Unconfirmed(details[c])
        /\ \E a \in DOMAIN txFlow[c] : txFlow[c][a] = 0 /\ ledger[c].debit[a] > 0
        /\ \E a \in DOMAIN txFlow[c] : txFlow[c][a] > 0

====
